---------------------------- MODULE Spec2Model ----------------------------
(***************************************************************************)
(* A model of wordlegram (src/main.py): a Telegram bot that recognises     *)
(* game results posted in a group chat, stores one Score row per           *)
(* (game, run, player, chat) and answers with a reaction or a scoreboard.  *)
(*                                                                         *)
(* A message text is a sequence of one-character strings, so that the      *)
(* regular expressions of VALID_GAMES are modelled by what they match.     *)
(* Reply texts are strings, built as str.format builds them.               *)
(***************************************************************************)
EXTENDS Integers, Sequences, FiniteSets, TLC

(***************************************************************************)
(* Bounds of the model.                                                    *)
(***************************************************************************)
\* The number of updates (messages and /score commands) handed out in one
\* behaviour of Spec.
MaxUpdates == 3
\* The same, in one behaviour of SpecConcurrent.
MaxConcurrentUpdates == 2
\* The longest digit string tried as a score token in SpecWide.
MaxTokLen == 2

(***************************************************************************)
(* Characters and text.                                                    *)
(***************************************************************************)
Digits == <<"0", "1", "2", "3", "4", "5", "6", "7", "8", "9">>

\* \d of the re module, on the ASCII digits.
IsDigit(c) == \E i \in 1..Len(Digits) : Digits[i] = c

DigitValue(c) == (CHOOSE i \in 1..Len(Digits) : Digits[i] = c) - 1

\* The text has the literal lit at position i.
HasLit(text, i, lit) ==
    /\ i >= 1
    /\ i + Len(lit) - 1 <= Len(text)
    /\ SubSeq(text, i, i + Len(lit) - 1) = lit

\* The number of characters that a greedy \d+ takes at position i
\* (0: the text has no digit there).
RECURSIVE DigitRun(_, _)
DigitRun(text, i) ==
    IF i >= 1 /\ i <= Len(text) /\ IsDigit(text[i])
    THEN 1 + DigitRun(text, i + 1)
    ELSE 0

\* int(s) of a str: the value of a non-empty digit string; ValueError
\* (IntOk is FALSE) for anything else the rules can capture.
IntOk(s) == Len(s) >= 1 /\ \A i \in 1..Len(s) : IsDigit(s[i])

RECURSIVE int(_)
int(s) ==
    IF Len(s) = 0 THEN 0
    ELSE 10 * int(SubSeq(s, 1, Len(s) - 1)) + DigitValue(s[Len(s)])

Max(a, b) == IF a >= b THEN a ELSE b

Min(a, b) == IF a <= b THEN a ELSE b

\* The registry with the 6 left off the header of the Woordle6 rule.
VALID_GAMES_SameHeader ==
    << [name |-> "Wordle",
        header |-> <<"W", "o", "r", "d", "l", "e">>,
        star |-> TRUE],
       [name |-> "Woordle",
        header |-> <<"W", "o", "o", "r", "d", "l", "e">>,
        star |-> FALSE],
       [name |-> "Woordle6",
        header |-> <<"W", "o", "o", "r", "d", "l", "e">>,
        star |-> FALSE] >>

(***************************************************************************)
(* VALID_GAMES: the registry, in its order.  A rule is                     *)
(*   ^<header> (?P<run>\d+) (?P<score>X|\d+)/6<\*? when star>\n            *)
(***************************************************************************)
VALID_GAMES ==
    << [name |-> "Wordle",
        header |-> <<"W", "o", "r", "d", "l", "e">>,
        star |-> TRUE],
       [name |-> "Woordle",
        header |-> <<"W", "o", "o", "r", "d", "l", "e">>,
        star |-> FALSE],
       [name |-> "Woordle6",
        header |-> <<"W", "o", "o", "r", "d", "l", "e", "6">>,
        star |-> FALSE] >>

NoMatch == [matched |-> FALSE, run |-> <<>>, score |-> <<>>]

\* re.match with the optional \*? in every rule, not only in Wordle's.
re_match_StarInEveryRule(rule, text) ==
    LET head  == rule.header \o <<" ">>
        iRun  == Len(head) + 1
        nRun  == DigitRun(text, iRun)
        iSp   == iRun + nRun
        iTok  == iSp + 1
        nTok  == IF HasLit(text, iTok, <<"X">>) THEN 1 ELSE DigitRun(text, iTok)
        iSix  == iTok + nTok
        iTail == iSix + 2
        iEol  == IF HasLit(text, iTail, <<"*">>) THEN iTail + 1 ELSE iTail
    IN  IF /\ HasLit(text, 1, head)
           /\ nRun >= 1
           /\ HasLit(text, iSp, <<" ">>)
           /\ nTok >= 1
           /\ HasLit(text, iSix, <<"/", "6">>)
           /\ HasLit(text, iEol, <<"\n">>)
        THEN [matched |-> TRUE,
              run |-> SubSeq(text, iRun, iSp - 1),
              score |-> SubSeq(text, iTok, iSix - 1)]
        ELSE [matched |-> FALSE, run |-> <<>>, score |-> <<>>]

\* re.match(pattern, text): anchored at the start of the text, free at its
\* end.  No alternative of the pattern can succeed after the greedy one
\* failed (what follows \d+ is never a digit, what follows \*? is never a
\* star), so the greedy match is the match.
re_match(rule, text) ==
    LET head  == rule.header \o <<" ">>
        iRun  == Len(head) + 1
        nRun  == DigitRun(text, iRun)
        iSp   == iRun + nRun
        iTok  == iSp + 1
        nTok  == IF HasLit(text, iTok, <<"X">>) THEN 1 ELSE DigitRun(text, iTok)
        iSix  == iTok + nTok
        iTail == iSix + 2
        iEol  == IF rule.star /\ HasLit(text, iTail, <<"*">>)
                 THEN iTail + 1 ELSE iTail
    IN  IF /\ HasLit(text, 1, head)
           /\ nRun >= 1
           /\ HasLit(text, iSp, <<" ">>)
           /\ nTok >= 1
           /\ HasLit(text, iSix, <<"/", "6">>)
           /\ HasLit(text, iEol, <<"\n">>)
        THEN [matched |-> TRUE,
              run |-> SubSeq(text, iRun, iSp - 1),
              score |-> SubSeq(text, iTok, iSix - 1)]
        ELSE NoMatch

\* The loop of echo falling through to the first rule when none matches.
FirstMatch_FallThrough(text) ==
    LET hits == {i \in 1..Len(VALID_GAMES) : re_match(VALID_GAMES[i], text).matched}
    IN  IF hits = {} THEN 1
        ELSE CHOOSE i \in hits : \A j \in hits : i <= j

\* The index of the first rule of VALID_GAMES that matches, 0 when none
\* does: the for loop of echo with its break.
FirstMatch(text) ==
    LET hits == {i \in 1..Len(VALID_GAMES) : re_match(VALID_GAMES[i], text).matched}
    IN  IF hits = {} THEN 0
        ELSE CHOOSE i \in hits : \A j \in hits : i <= j

\* Normalize without its clamp: 7 - int(token) as it comes.
Normalize_NoClamp(token) ==
    IF IntOk(token) THEN 7 - int(token) ELSE 0

\* The score of a captured token: max(0, min(6, 7 - int(token))), and 0
\* when int raises ValueError.
Normalize(token) ==
    IF IntOk(token) THEN Max(0, Min(6, 7 - int(token))) ELSE 0

(***************************************************************************)
(* REACTIONS: (lo, hi, template).  A template is the sequence of its       *)
(* literal pieces and replacement fields, in order.                        *)
(***************************************************************************)
REACTIONS ==
    << [lo |-> 6, hi |-> 6,
        text |-> <<"Are you cheating, ", "{player}", "? That's worth ", "{score}",
                   " points for ", "{game}", " ", "{run}", "\\!">>],
       [lo |-> 6, hi |-> 6,
        text |-> <<"Clearly, ", "{player}", " is clairvoyant\\. They get ", "{score}",
                   " whole points for ", "{game}", " ", "{run}", "\\!">>],
       [lo |-> 4, hi |-> 5,
        text |-> <<"Great work, ", "{player}", "\\! You get ", "{score}",
                   " points for ", "{game}", " ", "{run}", "\\.">>],
       [lo |-> 4, hi |-> 5,
        text |-> <<"Wow, ", "{player}", " is unstoppable\\. They get ", "{score}",
                   " points for ", "{game}", " ", "{run}", "\\!">>],
       [lo |-> 2, hi |-> 5,
        text |-> <<"For ", "{game}", " ", "{run}", ", we're awarding ", "{score}",
                   " points to ", "{player}", "\\!">>],
       [lo |-> 2, hi |-> 5,
        text |-> <<"Well done, ", "{player}", "\\. That's worth ", "{score}",
                   " points for ", "{game}", " ", "{run}", "\\.">>],
       [lo |-> 0, hi |-> 1,
        text |-> <<"Not your best work, ", "{player}", "\\. Here's ", "{score}",
                   " point for ", "{game}", " ", "{run}", "\\.">>],
       [lo |-> 0, hi |-> 2,
        text |-> <<"Better luck next time, ", "{player}", "\\. You get ", "{score}",
                   " points for ", "{game}", " ", "{run}", "\\.">>],
       [lo |-> 0, hi |-> 100000,
        text |-> <<"Awarding ", "{score}", " points to ", "{player}", " for ",
                   "{game}", " ", "{run}", "\\.">>] >>

\* The module global REACTIONS as the running process holds it: set when
\* the module is loaded, read by select_reaction, written by nothing.
VARIABLE reactions

\* select_reaction that tests only the lower end of the range.
select_reaction_LoOnly(score) ==
    {i \in 1..Len(reactions) : reactions[i].lo <= score}

\* select_reaction with the ends of the range left out of it.
select_reaction_Strict(score) ==
    {i \in 1..Len(reactions) : reactions[i].lo < score /\ reactions[i].hi > score}

\* select_reaction that tests only the upper end of the range.
select_reaction_HiOnly(score) ==
    {i \in 1..Len(reactions) : reactions[i].hi >= score}

\* The candidates of select_reaction: the (indices of the) reactions whose
\* range holds the score.  random.choice draws one of them.
select_reaction(score) ==
    {i \in 1..Len(reactions) : reactions[i].lo <= score /\ reactions[i].hi >= score}

\* template.format(**fields): every replacement field gives way to the str
\* of its value, as it is; the literal pieces stay.
RECURSIVE format(_, _)
format(template, fields) ==
    IF Len(template) = 0 THEN ""
    ELSE LET piece == Head(template)
         IN  (IF piece \in DOMAIN fields THEN fields[piece] ELSE piece)
             \o format(Tail(template), fields)

ReactionFields(player, score, game, run) ==
    [x \in {"{player}", "{score}", "{game}", "{run}"} |->
        CASE x = "{player}" -> player
          [] x = "{score}"  -> ToString(score)
          [] x = "{game}"   -> game
          [] x = "{run}"    -> ToString(run)]

\* The text echo sends after a Created submission.
ReactionText(i, player, score, game, run) ==
    format(reactions[i].text, ReactionFields(player, score, game, run))

\* The duplicate reply in the shorter wording.
DuplicateText_Short(game, run) ==
    "already submitted for " \o game \o " " \o ToString(run)

\* The text echo sends on peewee.IntegrityError.
DuplicateText(game, run) ==
    format(<<"Sorry, but you've already submitted a score for ", "{game}", " ",
             "{run}", "\\.">>,
           [x \in {"{game}", "{run}"} |->
               IF x = "{game}" THEN game ELSE ToString(run)])

(***************************************************************************)
(* The Score table.  A row is [game, run, player, score, chat]; the time   *)
(* column takes no part in any decision and is left out.  The primary key  *)
(* is CompositeKey("game", "run", "player", "chat").                       *)
(***************************************************************************)
Key(row) == <<row.game, row.run, row.player, row.chat>>

\* Score.create as an upsert: the row of the same key gives way to the new.
ScoreCreate_Upsert(table, row) ==
    [ok |-> TRUE, table |-> {r \in table : Key(r) # Key(row)} \cup {row}]

\* Score.create on a table without the primary key: every row is added.
ScoreCreate_NoPrimaryKey(table, row) ==
    [ok |-> TRUE, table |-> table \cup {row}]

\* Score.create on a table whose key is the whole row, the score included.
ScoreCreate_WholeRow(table, row) ==
    IF row \in table
    THEN [ok |-> FALSE, table |-> table]
    ELSE [ok |-> TRUE, table |-> table \cup {row}]

\* Score.create that overwrites the row of the same key before it raises.
ScoreCreate_ReplaceThenRaise(table, row) ==
    IF \E r \in table : Key(r) = Key(row)
    THEN [ok |-> FALSE, table |-> {r \in table : Key(r) # Key(row)} \cup {row}]
    ELSE [ok |-> TRUE, table |-> table \cup {row}]

\* Score.create: one INSERT.  The database refuses a row whose primary key
\* is in the table (peewee.IntegrityError) and adds any other.
ScoreCreate(table, row) ==
    IF \E r \in table : Key(r) = Key(row)
    THEN [ok |-> FALSE, table |-> table]
    ELSE [ok |-> TRUE, table |-> table \cup {row}]

RECURSIVE SUM(_)
SUM(rows) ==
    IF rows = {} THEN 0
    ELSE LET r == CHOOSE x \in rows : TRUE
         IN  r.score + SUM(rows \ {r})

\* The query without its WHERE: the rows of every chat.
ScoreSelect_AllChats(table, chat) ==
    {[player |-> p, total |-> SUM({r \in table : r.player = p})] :
        p \in {r.player : r \in table}}

\* SELECT player, SUM(score) AS total FROM score WHERE chat = ? GROUP BY
\* player: one row per player, in no order that SQL fixes.
ScoreSelect(table, chat) ==
    LET rows == {r \in table : r.chat = chat}
    IN  {[player |-> p, total |-> SUM({r \in rows : r.player = p})] :
            p \in {r.player : r \in rows}}

\* The orders in which the rows of a query can come back.
Orders(rows) ==
    {q \in [1..Cardinality(rows) -> rows] :
        \A i, j \in 1..Cardinality(rows) : i # j => q[i] # q[j]}

\* sorted left out: the rows in the order the query gave them.
sorted_QueryOrder(q) == q

\* sorted(items, key=lambda x: x.total, reverse=True): stable, so rows of
\* equal total keep the order they came in.
InsertDesc(s, x) ==
    LET k == Cardinality({i \in 1..Len(s) : s[i].total >= x.total})
    IN  SubSeq(s, 1, k) \o <<x>> \o SubSeq(s, k + 1, Len(s))

RECURSIVE sorted(_)
sorted(q) ==
    IF Len(q) = 0 THEN <<>>
    ELSE InsertDesc(sorted(SubSeq(q, 1, Len(q) - 1)), q[Len(q)])

(***************************************************************************)
(* The world the bot runs in: the users and group chats that post, and the *)
(* message texts they post.                                                *)
(***************************************************************************)
Users ==
    { [id |-> 1, first_name |-> "Ann", last_name |-> "Lee"],
      [id |-> 2, first_name |-> "B.J", last_name |-> "None"] }

Chats == {10, 20}

\* "Wordle 512 3/6\n"
TextWordle3 ==
    <<"W", "o", "r", "d", "l", "e", " ", "5", "1", "2", " ", "3", "/", "6", "\n">>

\* "Wordle 512 1/6\n"
TextWordle1 ==
    <<"W", "o", "r", "d", "l", "e", " ", "5", "1", "2", " ", "1", "/", "6", "\n">>

\* "Woordle6 10 6/6*\n"
TextWoordle6Star ==
    <<"W", "o", "o", "r", "d", "l", "e", "6", " ", "1", "0", " ", "6", "/", "6",
      "*", "\n">>

\* "Woordle6 10 6/6\n"
TextWoordle6 ==
    <<"W", "o", "o", "r", "d", "l", "e", "6", " ", "1", "0", " ", "6", "/", "6",
      "\n">>

\* The texts posted in Spec.
Texts == {TextWordle3, TextWordle1, TextWoordle6}

\* The texts posted in SpecWide: <header> <run> <token>/6<tail>, for every
\* header of the registry and one of none, and every token that is X, x or
\* a digit string of at most MaxTokLen digits.
WideHeaders ==
    {VALID_GAMES[i].header : i \in 1..Len(VALID_GAMES)}
        \cup {<<"W", "o", "r", "d", "l">>}

WideRuns == {<<"5", "1", "2">>, <<"1", "0">>}

WideTokens ==
    {<<"X">>, <<"x">>}
        \cup UNION {[1..n -> {Digits[i] : i \in 1..Len(Digits)}] : n \in 1..MaxTokLen}

WideTails == {<<"\n">>, <<"*", "\n">>, <<"*">>, <<"\n", "x", "\n">>}

WideTexts ==
    {h \o <<" ">> \o r \o <<" ">> \o t \o <<"/", "6">> \o e :
        h \in WideHeaders, r \in WideRuns, t \in WideTokens, e \in WideTails}

\* The handler threads of the dispatcher.
Handlers == {1, 2}

(***************************************************************************)
(* State.                                                                  *)
(***************************************************************************)
VARIABLES
    store,      \* the rows of the Score table
    nupd,       \* the number of updates handed out so far
    pc,         \* per handler: where its call stands, "idle" when it has none
    upd,        \* per handler: the update it was called with
    loc,        \* per handler: the local variables of the call
    last        \* the call that ended last: its update, its locals, its
                \* reply_markdown_v2 calls and the exception that left it

vars == <<store, nupd, pc, upd, loc, last, reactions>>

NoUser == [id |-> 0, first_name |-> "", last_name |-> ""]

NoUpdate ==
    [kind |-> "none", text |-> <<>>, from_user |-> NoUser, chat |-> 0]

\* result: what became of the call ("" while it runs); reaction: the index
\* of the reaction drawn (0: none); items: the sorted rows of score.
NoLocals ==
    [name |-> "", run |-> 0, score |-> 0, result |-> "", reaction |-> 0,
     items |-> <<>>]

NoCall == [upd |-> NoUpdate, loc |-> NoLocals, replies |-> <<>>, raised |-> "none"]

Init ==
    /\ store = {}
    /\ nupd = 0
    /\ pc = [h \in Handlers |-> "idle"]
    /\ upd = [h \in Handlers |-> NoUpdate]
    /\ loc = [h \in Handlers |-> NoLocals]
    /\ last = NoCall
    /\ reactions = REACTIONS

\* The dispatcher gives an update to the first handler that has no call.
Free(h) == pc[h] = "idle" /\ \A g \in Handlers : pc[g] = "idle" => h <= g

\* The call of handler h ends: it made the reply calls sent, raised exc
\* ("none": it returned), and h is free again.
Return(h, u, locals, sent, exc) ==
    /\ last' = [upd |-> u, loc |-> locals, replies |-> sent, raised |-> exc]
    /\ pc' = [pc EXCEPT ![h] = "idle"]
    /\ upd' = [upd EXCEPT ![h] = NoUpdate]
    /\ loc' = [loc EXCEPT ![h] = NoLocals]

(***************************************************************************)
(* echo, the handler of text messages, in the steps other calls can come   *)
(* between: up to Score.create, Score.create, and the reply.               *)
(***************************************************************************)
\* Lines 132-139: the rules in order, the first match, the score and the
\* run.  No rule matches: the loop ends and echo returns.
echo(h, text, user, chat) ==
    LET i == FirstMatch(text)
        m == IF i = 0 THEN NoMatch ELSE re_match(VALID_GAMES[i], text)
        u == [kind |-> "message", text |-> text,
              from_user |-> user, chat |-> chat]
    IN  /\ Free(h)
        /\ nupd' = nupd + 1
        /\ IF i = 0
           THEN Return(h, u, [NoLocals EXCEPT !.result = "NoMatch"], <<>>, "none")
           ELSE /\ pc' = [pc EXCEPT ![h] = "create"]
                /\ upd' = [upd EXCEPT ![h] = u]
                /\ loc' = [loc EXCEPT ![h] =
                              [NoLocals EXCEPT !.name = VALID_GAMES[i].name,
                                               !.score = Normalize(m.score),
                                               !.run = int(m.run)]]
                /\ UNCHANGED last
        /\ UNCHANGED <<store, reactions>>

\* The row echo hands to Score.create.
NewRow(h) ==
    [game |-> loc[h].name, run |-> loc[h].run, player |-> upd[h].from_user.id,
     score |-> loc[h].score, chat |-> upd[h].chat]

\* Lines 141-148: Score.create returns, or raises peewee.IntegrityError.
echo_create(h) ==
    LET res == ScoreCreate(store, NewRow(h))
    IN  /\ pc[h] = "create"
        /\ store' = res.table
        /\ pc' = [pc EXCEPT ![h] = IF res.ok THEN "react" ELSE "duplicate"]
        /\ loc' = [loc EXCEPT ![h].result =
                      IF res.ok THEN "Created" ELSE "IntegrityError"]
        /\ UNCHANGED <<nupd, upd, last, reactions>>

\* echo whose Score.create and reply share one transaction: a reply that
\* fails takes the row back out of the table.
echo_react_Rollback(h) ==
    /\ pc[h] = "react"
    /\ \E i \in select_reaction(loc[h].score), ok \in BOOLEAN :
          /\ Return(h, upd[h], [loc[h] EXCEPT !.reaction = i],
                    <<[chat |-> upd[h].chat,
                       text |-> ReactionText(i, upd[h].from_user.first_name,
                                             loc[h].score, loc[h].name, loc[h].run)]>>,
                    IF ok THEN "none" ELSE "TelegramError")
          /\ store' = IF ok THEN store ELSE store \ {NewRow(h)}
    /\ UNCHANGED <<nupd, reactions>>

\* Lines 150-159: a reaction is drawn and sent.  random.choice raises
\* IndexError on no candidate; reply_markdown_v2 raises TelegramError when
\* the request fails; neither is caught.
echo_react(h) ==
    /\ pc[h] = "react"
    /\ IF select_reaction(loc[h].score) = {}
       THEN Return(h, upd[h], loc[h], <<>>, "IndexError")
       ELSE \E i \in select_reaction(loc[h].score), ok \in BOOLEAN :
              Return(h, upd[h], [loc[h] EXCEPT !.reaction = i],
                     <<[chat |-> upd[h].chat,
                        text |-> ReactionText(i, upd[h].from_user.first_name,
                                              loc[h].score, loc[h].name, loc[h].run)]>>,
                     IF ok THEN "none" ELSE "TelegramError")
    /\ UNCHANGED <<store, nupd, reactions>>

\* Lines 160-165: the reply to a submission the table already holds.
echo_duplicate(h) ==
    /\ pc[h] = "duplicate"
    /\ \E ok \in BOOLEAN :
          Return(h, upd[h], loc[h],
                 <<[chat |-> upd[h].chat,
                    text |-> DuplicateText(loc[h].name, loc[h].run)]>>,
                 IF ok THEN "none" ELSE "TelegramError")
    /\ UNCHANGED <<store, nupd, reactions>>

(***************************************************************************)
(* score, the handler of the /score command.  It reads the table once and  *)
(* writes nothing, so the whole call is one step.                          *)
(***************************************************************************)
\* context.bot.get_chat_member(chat, player).user
get_chat_member(player) == CHOOSE u \in Users : u.id = player

\* One line of the scoreboard.
BoardLine(n, item) ==
    format(<<"{n}", "\\. [", "{player_first_name}", " ", "{player_last_name}",
             "](tg://user?id=", "{player_id}", ") \\(", "{score}", " points\\)\n">>,
           [x \in {"{n}", "{player_first_name}", "{player_last_name}",
                   "{player_id}", "{score}"} |->
               CASE x = "{n}" -> ToString(n)
                 [] x = "{player_first_name}" -> get_chat_member(item.player).first_name
                 [] x = "{player_last_name}" -> get_chat_member(item.player).last_name
                 [] x = "{player_id}" -> ToString(item.player)
                 [] x = "{score}" -> ToString(item.total)])

BoardHeader == "Here's the current scoreboard for this channel:\n\n"

\* The message after the first k items: the loop of lines 118-126.
RECURSIVE BoardText(_, _)
BoardText(items, k) ==
    IF k = 0 THEN BoardHeader
    ELSE BoardText(items, k - 1) \o BoardLine(k, items[k])

\* Lines 107-128.  The rows come back in some order and are sorted; the
\* get_chat_member of item failAt raises (0: none does), which ends the
\* call before any reply (result "LookupFailed"); the reply itself can
\* fail.  score reads nothing of the update but its chat, so the sender is
\* left out.
score(h, chat) ==
    LET u == [kind |-> "command", text |-> <<>>,
              from_user |-> NoUser, chat |-> chat]
    IN  /\ Free(h)
        /\ nupd' = nupd + 1
        /\ \E q \in Orders(ScoreSelect(store, chat)) :
             LET items == sorted(q)
                 locals == [NoLocals EXCEPT !.result = "Scoreboard", !.items = items]
             IN  \E failAt \in 0..Len(items), ok \in BOOLEAN :
                    IF failAt > 0
                    THEN Return(h, u, [locals EXCEPT !.result = "LookupFailed"],
                                <<>>, "TelegramError")
                    ELSE Return(h, u, locals,
                                <<[chat |-> chat,
                                   text |-> BoardText(items, Len(items))]>>,
                                IF ok THEN "none" ELSE "TelegramError")
        /\ UNCHANGED <<store, reactions>>

(***************************************************************************)
(* Spec: the bot from its start, as main sets it up.  Neither handler is   *)
(* registered to run asynchronously, so the dispatcher runs one call at a  *)
(* time, each to its end: only the first handler thread is ever used.      *)
(***************************************************************************)
Dispatcher == CHOOSE h \in Handlers : \A g \in Handlers : h <= g

Next ==
    \/ /\ nupd < MaxUpdates
       /\ \E text \in Texts, user \in Users, chat \in Chats :
             echo(Dispatcher, text, user, chat)
    \/ /\ nupd < MaxUpdates
       /\ \E chat \in Chats : score(Dispatcher, chat)
    \/ echo_create(Dispatcher)
    \/ echo_react(Dispatcher)
    \/ echo_duplicate(Dispatcher)

Spec == Init /\ [][Next]_vars

(***************************************************************************)
(* SpecConcurrent: the same bot under a dispatch layer that runs its calls *)
(* concurrently, one per handler thread, the steps of the calls in any     *)
(* interleaving.                                                           *)
(***************************************************************************)
NextConcurrent ==
    \/ /\ nupd < MaxConcurrentUpdates
       /\ \E h \in Handlers, text \in Texts, user \in Users, chat \in Chats :
             echo(h, text, user, chat)
    \/ /\ nupd < MaxConcurrentUpdates
       /\ \E h \in Handlers, chat \in Chats : score(h, chat)
    \/ \E h \in Handlers : echo_create(h)
    \/ \E h \in Handlers : echo_react(h)
    \/ \E h \in Handlers : echo_duplicate(h)

SpecConcurrent == Init /\ [][NextConcurrent]_vars

(***************************************************************************)
(* SpecWide: one message of any text of WideTexts, handled on a table that *)
(* is empty or holds the Wordle 512 submission of the sender.              *)
(***************************************************************************)
WideUser == CHOOSE u \in Users : u.id = 1

WideChat == CHOOSE c \in Chats : \A d \in Chats : c <= d

InitWide ==
    /\ store \in {{}, {[game |-> "Wordle", run |-> 512, player |-> WideUser.id,
                        score |-> 4, chat |-> WideChat]}}
    /\ nupd = 0
    /\ pc = [h \in Handlers |-> "idle"]
    /\ upd = [h \in Handlers |-> NoUpdate]
    /\ loc = [h \in Handlers |-> NoLocals]
    /\ last = NoCall
    /\ reactions = REACTIONS

NextWide ==
    \/ /\ nupd = 0
       /\ \E h \in Handlers, text \in WideTexts : echo(h, text, WideUser, WideChat)
    \/ \E h \in Handlers : echo_create(h)
    \/ \E h \in Handlers : echo_react(h)
    \/ \E h \in Handlers : echo_duplicate(h)

SpecWide == InitWide /\ [][NextWide]_vars

(***************************************************************************)
(* SpecDefect: the bot started with a reaction table that leaves a score   *)
(* of 0..6 uncovered: REACTIONS less the entries that cover that score.    *)
(* main (lines 170-188) connects the database, creates the table,          *)
(* registers the handlers and starts polling; it does not look at the      *)
(* table, so the bot serves updates under any of them.                     *)
(***************************************************************************)
Without(s) ==
    LET Keep(t) == ~(t.lo <= s /\ t.hi >= s)
    IN  SelectSeq(REACTIONS, Keep)

DefectiveTables == {Without(s) : s \in 0..6}

InitDefect ==
    /\ store = {}
    /\ nupd = 0
    /\ pc = [h \in Handlers |-> "idle"]
    /\ upd = [h \in Handlers |-> NoUpdate]
    /\ loc = [h \in Handlers |-> NoLocals]
    /\ last = NoCall
    /\ reactions \in DefectiveTables

SpecDefect == InitDefect /\ [][Next]_vars

(***************************************************************************)
(* Properties.                                                             *)
(***************************************************************************)
Rules == 1..Len(VALID_GAMES)

\* The handlers whose call has passed Score.create.
PastCreate(h) == pc[h] \in {"react", "duplicate"}

\* Handler h takes the Score.create step.
CreateStep(h) == pc[h] = "create" /\ pc'[h] # "create"

\* C1: in every reachable state, under any interleaving of echo calls, the
\* table holds at most one row for each (game, run, player, chat).
C1_OneRowPerKey ==
    \A r1, r2 \in store : Key(r1) = Key(r2) => r1 = r2

\* A second submission of a stored key, with another score, was refused
\* while the call that stored it was still running.
C1_Witness ==
    \E h, g \in Handlers :
        /\ h # g
        /\ pc[h] = "duplicate"
        /\ pc[g] = "react"
        /\ Key(NewRow(h)) = Key(NewRow(g))
        /\ loc[h].score # loc[g].score
        /\ NewRow(g) \in store

\* C2: a submission whose (game, run, player, chat) is stored ends in
\* IntegrityError (DuplicateRejected) whatever its score token, leaves the
\* table as it was, and the table holds exactly one row of that key, the
\* one stored before.
C2_Idempotent ==
    [][\A h \in Handlers :
          (CreateStep(h) /\ \E r \in store : Key(r) = Key(NewRow(h)))
          => /\ pc'[h] = "duplicate"
             /\ loc'[h].result = "IntegrityError"
             /\ store' = store
             /\ Cardinality({r \in store' : Key(r) = Key(NewRow(h))}) = 1]_vars

\* A resubmission with another score token was refused and the call ended:
\* the table still holds the first score.
C2_Witness ==
    /\ last.loc.result = "IntegrityError"
    /\ \E r \in store :
          /\ Key(r) = <<last.loc.name, last.loc.run, last.upd.from_user.id,
                        last.upd.chat>>
          /\ r.score # last.loc.score

\* C3: of two calls for the same key that run at the same time, never both
\* get Created; the one that reaches Score.create first gets Created when
\* the key is not stored, and the other gets IntegrityError.
C3_OneCreated ==
    [][\A h, g \in Handlers :
          (h # g /\ CreateStep(h) /\ Key(NewRow(h)) = Key(NewRow(g)))
          => /\ ~(pc'[h] = "react" /\ pc'[g] = "react")
             /\ (pc[g] = "create" /\ ~\E r \in store : Key(r) = Key(NewRow(h)))
                   => pc'[h] = "react"
             /\ pc[g] = "react" => pc'[h] = "duplicate"]_vars

\* Two calls for one key, with different score tokens, are both past
\* Score.create: one was Created, the other refused.
C3_Witness ==
    \E h, g \in Handlers :
        /\ h # g
        /\ PastCreate(h) /\ PastCreate(g)
        /\ Key(NewRow(h)) = Key(NewRow(g))
        /\ loc[h].result = "Created"
        /\ loc[g].result = "IntegrityError"
        /\ Cardinality(store) = 1

\* The token the matching rule captured from the text.
Captured(text) == re_match(VALID_GAMES[FirstMatch(text)], text).score

\* The score the claim gives a token: 7 - a for a number a in 1..6, and 0
\* for X and for any other token.
ClaimedScore(token) ==
    IF IntOk(token) /\ int(token) \in 1..6 THEN 7 - int(token) ELSE 0

\* C4 as claimed: every captured token gets the score 7 - a when it is a
\* number a in 1..6, and 0 when it is X or any other token (0, 7, 12).
C4_ScoreAsClaimed ==
    \A h \in Handlers :
        pc[h] = "create" => loc[h].score = ClaimedScore(Captured(upd[h].text))

\* C5: the score of every call and of every stored row is in 0..6.
C5_ScoreInRange ==
    /\ \A r \in store : r.score \in 0..6
    /\ \A h \in Handlers : loc[h].score \in 0..6
    /\ last.loc.score \in 0..6

\* A row was stored from a token far out of range.
C5_Witness ==
    \E h \in Handlers :
        /\ pc[h] = "react"
        /\ NewRow(h) \in store
        /\ Captured(upd[h].text) \in {<<"1", "2">>, <<"9", "9">>}

\* A step that hands out an update whose call ends in the same step.
EndsAtOnce == nupd' # nupd /\ pc' = pc

\* The sum of the scores of rows, counted score by score.
TotalOf(rows) ==
    1 * Cardinality({r \in rows : r.score = 1})
    + 2 * Cardinality({r \in rows : r.score = 2})
    + 3 * Cardinality({r \in rows : r.score = 3})
    + 4 * Cardinality({r \in rows : r.score = 4})
    + 5 * Cardinality({r \in rows : r.score = 5})
    + 6 * Cardinality({r \in rows : r.score = 6})

\* C6: the scoreboard of chat c has one item per player with a stored row
\* of chat c, its total the sum of the scores of that player's rows of chat
\* c; rows of other chats add nothing and nobody; a listing that is sent is
\* the rendering of these items.
C6_TotalsPerChat ==
    [][(EndsAtOnce /\ last'.upd.kind = "command") =>
          LET c == last'.upd.chat
              items == last'.loc.items
              rows == {r \in store : r.chat = c}
          IN  /\ {items[i].player : i \in 1..Len(items)} = {r.player : r \in rows}
              /\ \A i, j \in 1..Len(items) : i # j => items[i].player # items[j].player
              /\ \A i \in 1..Len(items) :
                    items[i].total = TotalOf({r \in rows : r.player = items[i].player})
              /\ last'.replies # <<>> =>
                    last'.replies = <<[chat |-> c, text |-> BoardText(items, Len(items))]>>]_vars

\* A scoreboard was sent for a chat in which a player has two rows; it
\* shows their sum.
C6_Witness ==
    /\ last.upd.kind = "command"
    /\ last.raised = "none"
    /\ Len(last.replies) = 1
    /\ \E i \in 1..Len(last.loc.items) :
          /\ last.loc.items[i].total = 5
          /\ Cardinality({r \in store : r.chat = last.upd.chat
                                         /\ r.player = last.loc.items[i].player}) = 2

\* The row the registry and the normalizer make of a message.
MatchedRow(u) ==
    LET i == CHOOSE k \in Rules :
                 /\ re_match(VALID_GAMES[k], u.text).matched
                 /\ \A j \in 1..(k - 1) : ~re_match(VALID_GAMES[j], u.text).matched
        m == re_match(VALID_GAMES[i], u.text)
    IN  [game |-> VALID_GAMES[i].name, run |-> int(m.run), player |-> u.from_user.id,
         score |-> Normalize(m.score), chat |-> u.chat]

\* The reply is reaction i, filled in for the row and the sender.
IsReaction(reply, i, u, row) ==
    reply.text = ReactionText(i, u.from_user.first_name, row.score, row.game, row.run)

\* C7: a matching message that is no duplicate adds exactly one row, with
\* the matched game, the run, the sender, the chat and the normalized
\* score, and its call makes exactly one reply, in the chat, a reaction
\* whose range holds that score; "Wordle 512 3/6\n" stores (Wordle, 512,
\* sender, chat, 4) and is answered by a reaction that covers [4, 5].
C7_CreatedAndReacted ==
    [][\A h \in Handlers :
          /\ (CreateStep(h) /\ pc'[h] = "react")
                => /\ MatchedRow(upd[h]) \notin store
                   /\ store' = store \cup {MatchedRow(upd[h])}
          /\ (pc[h] = "react" /\ pc'[h] = "idle")
                => LET row == MatchedRow(upd[h])
                   IN  /\ store' = store
                       /\ row \in store
                       /\ Len(last'.replies) = 1
                       /\ last'.replies[1].chat = upd[h].chat
                       /\ \E i \in 1..Len(REACTIONS) :
                             /\ IsReaction(last'.replies[1], i, upd[h], row)
                             /\ REACTIONS[i].lo <= row.score
                             /\ row.score <= REACTIONS[i].hi
                       /\ upd[h].text = TextWordle3
                             => /\ row = [game |-> "Wordle", run |-> 512,
                                          player |-> upd[h].from_user.id,
                                          score |-> 4, chat |-> upd[h].chat]
                                /\ \E i \in 1..Len(REACTIONS) :
                                      /\ IsReaction(last'.replies[1], i, upd[h], row)
                                      /\ REACTIONS[i].lo <= 4
                                      /\ REACTIONS[i].hi >= 5]_vars

\* "Wordle 512 3/6\n" was stored with score 4 and answered.
C7_Witness ==
    /\ last.upd.text = TextWordle3
    /\ last.loc.result = "Created"
    /\ Len(last.replies) = 1
    /\ last.raised = "none"
    /\ [game |-> "Wordle", run |-> 512, player |-> last.upd.from_user.id,
        score |-> 4, chat |-> last.upd.chat] \in store

\* The step in which a call that met IntegrityError ends.
DuplicateEnds(h) == pc[h] = "duplicate" /\ pc'[h] = "idle"

\* C8 as claimed: a duplicate submission is answered by exactly one reply,
\* "already submitted for {game} {run}", no reaction is drawn, and the
\* table stays as it was.  (Stated of the calls whose reply went through.)
C8_ReplyAsClaimed ==
    [][\A h \in Handlers :
          /\ (CreateStep(h) /\ pc'[h] = "duplicate") => store' = store
          /\ (DuplicateEnds(h) /\ last'.raised = "none")
                => /\ store' = store
                   /\ last'.loc.reaction = 0
                   /\ Len(last'.replies) = 1
                   /\ last'.replies[1].text =
                         "already submitted for " \o loc[h].name \o " "
                             \o ToString(loc[h].run)]_vars

\* C8, amended: the one reply reads "Sorry, but you've already submitted a
\* score for {game} {run}\." ("... for Wordle 512\." when "Wordle 512 1/6\n"
\* is resubmitted); no reaction is drawn, and the table stays as it was.
C8_DuplicateReply ==
    [][\A h \in Handlers :
          /\ (CreateStep(h) /\ pc'[h] = "duplicate") => store' = store
          /\ DuplicateEnds(h)
                => /\ store' = store
                   /\ last'.loc.reaction = 0
                   /\ Len(last'.replies) = 1
                   /\ last'.replies[1].chat = upd[h].chat
                   /\ last'.replies[1].text =
                         "Sorry, but you've already submitted a score for "
                             \o loc[h].name \o " " \o ToString(loc[h].run) \o "\\."
                   /\ upd[h].text = TextWordle1
                         => last'.replies[1].text =
                               "Sorry, but you've already submitted a score for Wordle 512\\."]_vars

\* "Wordle 512 1/6\n" was refused as a duplicate of a stored score 4.
C8_Witness ==
    /\ last.upd.text = TextWordle1
    /\ last.loc.result = "IntegrityError"
    /\ Len(last.replies) = 1
    /\ [game |-> "Wordle", run |-> 512, player |-> last.upd.from_user.id,
        score |-> 4, chat |-> last.upd.chat] \in store

\* Rule k of the registry matches the text.
Matches(k, text) == re_match(VALID_GAMES[k], text).matched

\* The index of the rule of the game.
RuleOf(game) == CHOOSE k \in Rules : VALID_GAMES[k].name = game

\* C9 as claimed: "Woordle6 10 6/6*\n" is not matched by the Woordle rule,
\* is matched by the Woordle6 rule, and its call stores a row of game
\* Woordle6, run 10.
C9_StarAsClaimed ==
    last.upd.text = TextWoordle6Star
    => /\ ~Matches(RuleOf("Woordle"), TextWoordle6Star)
       /\ Matches(RuleOf("Woordle6"), TextWoordle6Star)
       /\ \E r \in store : r.game = "Woordle6" /\ r.run = 10

\* C9, amended: "Woordle6 10 6/6*\n" is matched by no rule, the Woordle6
\* rule included, which has no bonus marker: its call ends without a row
\* and without a reply.  "Woordle6 10 6/6\n" is not matched by the Woordle
\* rule, is matched by the Woordle6 rule, and its call stores a row of game
\* Woordle6, run 10.
C9_Woordle6 ==
    /\ \A h \in Handlers : upd[h].text # TextWoordle6Star
    /\ last.upd.text = TextWoordle6Star
          => /\ \A k \in Rules : ~Matches(k, TextWoordle6Star)
             /\ last.loc.result = "NoMatch"
             /\ last.replies = <<>>
             /\ ~\E r \in store : r.game = "Woordle6"
    /\ \A h \in Handlers :
          upd[h].text = TextWoordle6
          => /\ ~Matches(RuleOf("Woordle"), TextWoordle6)
             /\ Matches(RuleOf("Woordle6"), TextWoordle6)
             /\ loc[h].name = "Woordle6"
             /\ loc[h].run = 10
             /\ PastCreate(h) => /\ loc[h].result = "Created"
                                 /\ NewRow(h) \in store
    /\ last.upd.text = TextWoordle6
          => /\ last.loc.result = "Created"
             /\ \E r \in store :
                   /\ r.game = "Woordle6" /\ r.run = 10
                   /\ r.player = last.upd.from_user.id /\ r.chat = last.upd.chat

\* The call on "Woordle6 10 6/6*\n" has ended.
C9_Witness ==
    /\ last.upd.text = TextWoordle6Star
    /\ last.loc.result = "NoMatch"

\* The update that a step hands out.
HandedOut ==
    IF pc' = pc THEN last'.upd
    ELSE upd'[CHOOSE h \in Handlers : pc'[h] # pc[h]]

\* C10: the call on a text that no rule matches ends at once, with no
\* reply, no exception and the table as it was.
C10_NoMatchNoEffect ==
    [][(/\ nupd' # nupd
        /\ HandedOut.kind = "message"
        /\ \A k \in Rules : ~Matches(k, HandedOut.text))
       => /\ pc' = pc
          /\ store' = store
          /\ last'.replies = <<>>
          /\ last'.raised = "none"]_vars

\* A text that no rule matches was handled with a row in the table.
C10_Witness ==
    /\ last.loc.result = "NoMatch"
    /\ last.upd.kind = "message"
    /\ \A k \in Rules : ~Matches(k, last.upd.text)
    /\ last.replies = <<>>
    /\ store # {}

\* The reactions whose inclusive range holds the score.
Covering(s) == {i \in 1..Len(REACTIONS) : s \in REACTIONS[i].lo..REACTIONS[i].hi}

\* C11: the reaction drawn for a score in 0..6 is never one whose inclusive
\* range [lo, hi] leaves the score out, and it is the one that is sent; for
\* the score 6 it is one of the reactions that cover 6.
C11_ReactionCoversScore ==
    [][\A h \in Handlers :
          (pc[h] = "react" /\ pc'[h] = "idle" /\ last'.loc.reaction # 0)
          => LET i == last'.loc.reaction
                 s == loc[h].score
             IN  /\ s \in 0..6
                 /\ i \in 1..Len(REACTIONS)
                 /\ ~(s < REACTIONS[i].lo \/ s > REACTIONS[i].hi)
                 /\ s = 6 => i \in Covering(6)
                 /\ last'.replies[1].text =
                       ReactionText(i, upd[h].from_user.first_name, s,
                                    loc[h].name, loc[h].run)]_vars

\* The score 6 was answered by a reaction of the range [6, 6].
C11_Witness ==
    /\ last.loc.result = "Created"
    /\ last.loc.score = 6
    /\ last.loc.reaction # 0
    /\ REACTIONS[last.loc.reaction].lo = 6
    /\ Len(last.replies) = 1

\* C12: every score in 0..6 has a reaction that covers it, so the draw that
\* follows Created never fails for want of a candidate: no call ends in
\* IndexError, and every call that was Created has drawn a reaction.
C12_CandidateForEveryScore ==
    /\ \A h \in Handlers :
          pc[h] = "react" => /\ loc[h].score \in 0..6
                             /\ select_reaction(loc[h].score) # {}
    /\ last.raised # "IndexError"
    /\ last.loc.result = "Created"
          => /\ last.loc.reaction \in select_reaction(last.loc.score)
             /\ Len(last.replies) = 1

\* A submission of the lowest score, 0, was Created and answered.
C12_Witness ==
    /\ last.loc.result = "Created"
    /\ last.loc.score = 0
    /\ last.loc.reaction # 0
    /\ last.raised = "none"

\* C13: a stored row is never updated or deleted: every row of the table is
\* in the table, with the score it was stored with, after every step, and
\* the step of a scoreboard request leaves the table as it was.
C13_RowsStay ==
    [][/\ \A r \in store :
             /\ r \in store'
             /\ \A r2 \in store' : Key(r2) = Key(r) => r2.score = r.score
       /\ (nupd' # nupd /\ HandedOut.kind = "command") => store' = store]_vars

\* A scoreboard request ended on a table that held a row, after which a
\* message for the key of that row, with another score, was refused.
C13_Witness ==
    /\ last.upd.kind = "command"
    /\ \E h \in Handlers :
          /\ pc[h] = "duplicate"
          /\ \E r \in store : Key(r) = Key(NewRow(h)) /\ r.score # loc[h].score

\* The call that ended last was Created and its reply failed.
ReplyFailedAfterCreated ==
    /\ last.loc.result = "Created"
    /\ last.raised = "TelegramError"

\* The row of the call that ended last.
LastRow ==
    [game |-> last.loc.name, run |-> last.loc.run,
     player |-> last.upd.from_user.id, score |-> last.loc.score,
     chat |-> last.upd.chat]

\* C14: when the reply fails after Created, the row stays in the table (the
\* step of the failure takes nothing out, and the row is there afterwards),
\* and a later submission of the same (game, run, player, chat) is refused
\* as a duplicate, the table left as it was.
C14_RowOutlivesFailedReply ==
    [][/\ \A h \in Handlers :
             (pc[h] = "react" /\ pc'[h] = "idle" /\ last'.raised = "TelegramError")
             => /\ store' = store
                /\ NewRow(h) \in store'
       /\ ReplyFailedAfterCreated => LastRow \in store
       /\ \A h \in Handlers :
             (ReplyFailedAfterCreated /\ CreateStep(h)
              /\ Key(NewRow(h)) = Key(LastRow))
             => /\ pc'[h] = "duplicate"
                /\ loc'[h].result = "IntegrityError"
                /\ store' = store]_vars

\* After a Created call whose reply failed, the next message, for the same
\* key, was refused.
C14_Witness ==
    /\ ReplyFailedAfterCreated
    /\ \E h \in Handlers :
          /\ pc[h] = "duplicate"
          /\ Key(NewRow(h)) = Key(LastRow)
          /\ LastRow \in store

\* C15 as claimed: a get_chat_member that fails for one player does not end
\* the scoreboard call: the listing is still sent (with a row for every
\* item, the row of that player under a fallback label; the formula asks
\* only for the listing).
C15_LookupFailureTolerated ==
    (last.upd.kind = "command" /\ last.loc.result = "LookupFailed")
    => /\ Len(last.replies) = 1
       /\ last.replies[1].chat = last.upd.chat

\* The user of the id.
UserOf(id) == CHOOSE u \in Users : u.id = id

\* Rows n, n + 1, ... of a listing, one for each item, in the order of the
\* items.
RECURSIVE NumberedRows(_, _)
NumberedRows(items, n) ==
    IF Len(items) = 0 THEN ""
    ELSE ToString(n) \o "\\. [" \o UserOf(Head(items).player).first_name \o " "
         \o UserOf(Head(items).player).last_name \o "](tg://user?id="
         \o ToString(Head(items).player) \o ") \\("
         \o ToString(Head(items).total) \o " points\\)\n"
         \o NumberedRows(Tail(items), n + 1)

\* C16: the listing of a chat has exactly one row for each player with a
\* stored row of that chat, the rows are in descending order of total, and
\* they are numbered 1, 2, ..., N from the top.
C16_RankedListing ==
    [][(EndsAtOnce /\ last'.upd.kind = "command" /\ last'.replies # <<>>) =>
          LET c == last'.upd.chat
              items == last'.loc.items
              players == {r.player : r \in {x \in store : x.chat = c}}
          IN  /\ Len(items) = Cardinality(players)
              /\ {items[i].player : i \in 1..Len(items)} = players
              /\ \A i, j \in 1..Len(items) : i < j => items[i].total >= items[j].total
              /\ Len(last'.replies) = 1
              /\ last'.replies[1].text =
                    "Here's the current scoreboard for this channel:\n\n"
                        \o NumberedRows(items, 1)]_vars

\* A listing of two players with different totals was sent.
C16_Witness ==
    /\ last.upd.kind = "command"
    /\ last.raised = "none"
    /\ Len(last.replies) = 1
    /\ Len(last.loc.items) = 2
    /\ last.loc.items[1].total > last.loc.items[2].total
    /\ last.replies[1].text =
          "Here's the current scoreboard for this channel:\n\n"
              \o "1\\. [B.J None](tg://user?id=2) \\(6 points\\)\n"
              \o "2\\. [Ann Lee](tg://user?id=1) \\(4 points\\)\n"

\* C17: a scoreboard request in a chat with no stored row, other chats
\* holding rows or not, makes no lookup, so none can fail, and sends one
\* reply, in the chat: the header and no ranked row.  No exception arises
\* unless the request of the reply itself fails.
C17_EmptyListing ==
    [][(/\ nupd' # nupd
        /\ HandedOut.kind = "command"
        /\ ~\E r \in store : r.chat = HandedOut.chat)
       => /\ pc' = pc
          /\ store' = store
          /\ last'.loc.items = <<>>
          /\ last'.loc.result = "Scoreboard"
          /\ last'.replies =
                <<[chat |-> HandedOut.chat,
                   text |-> "Here's the current scoreboard for this channel:\n\n"]>>]_vars

\* The header alone was sent in a chat without rows while the other chat
\* held rows.
C17_Witness ==
    /\ last.upd.kind = "command"
    /\ last.raised = "none"
    /\ last.loc.items = <<>>
    /\ Len(last.replies) = 1
    /\ last.replies[1].text = BoardHeader
    /\ store # {}
    /\ \A r \in store : r.chat # last.upd.chat

ReservedChars ==
    {"_", "*", "[", "]", "(", ")", "~", ">", "#", "+", "-", "=", "|",
     "{", "}", ".", "!"}

\* telegram.utils.helpers.escape_markdown(text, version=2), imported on
\* line 12: a backslash goes before every reserved character.
RECURSIVE escape_markdown(_)
escape_markdown(chars) ==
    IF Len(chars) = 0 THEN <<>>
    ELSE (IF Head(chars) \in ReservedChars THEN <<"\\", Head(chars)>>
          ELSE <<Head(chars)>>) \o escape_markdown(Tail(chars))

\* The string of a sequence of characters.
RECURSIVE Str(_)
Str(chars) == IF Len(chars) = 0 THEN "" ELSE Head(chars) \o Str(Tail(chars))

\* The first name of a user, character by character.
FirstNameChars(user) ==
    CHOOSE chars \in {<<"A", "n", "n">>, <<"B", ".", "J">>} :
        Str(chars) = user.first_name

\* C19 as claimed: in every reply made from a reaction template, every
\* reserved character of the player name stands escaped: the reply is the
\* template filled in with the escaped first name of the sender.
C19_NameEscaped ==
    last.loc.reaction # 0
    => /\ Len(last.replies) = 1
       /\ last.replies[1].text =
             format(REACTIONS[last.loc.reaction].text,
                    ReactionFields(Str(escape_markdown(FirstNameChars(last.upd.from_user))),
                                   last.loc.score, last.loc.name, last.loc.run))

\* C20: no text is matched by more than one rule, so the game a message is
\* recorded under is the game of every rule that matches it, whatever the
\* order of the registry; and one message adds at most one row: the table
\* grows only by the one row of a Score.create step, and a call takes that
\* step once.
C20_RulesExclusive ==
    [][/\ (nupd' # nupd /\ HandedOut.kind = "message")
             => LET M == {k \in Rules : Matches(k, HandedOut.text)}
                IN  /\ Cardinality(M) <= 1
                    /\ M = {} <=> pc' = pc
                    /\ \A h \in Handlers : \A k \in M :
                          pc'[h] # pc[h] => loc'[h].name = VALID_GAMES[k].name
       /\ store' # store
             => \E h \in Handlers :
                   /\ CreateStep(h)
                   /\ store \subseteq store'
                   /\ store' \ store = {NewRow(h)}
       /\ \A h \in Handlers :
             PastCreate(h) => pc'[h] \in {pc[h], "idle"}]_vars

\* "Woordle6 10 6/6\n", whose header begins with the header of the Woordle
\* rule, was recorded once, as Woordle6.
C20_Witness ==
    /\ last.upd.text = TextWoordle6
    /\ last.loc.result = "Created"
    /\ Cardinality({r \in store : r.run = 10}) = 1
    /\ \E r \in store : r.game = "Woordle6" /\ r.run = 10

=============================================================================
